---- MODULE Spec2Model ----
(***************************************************************************)
(* Model of enen_Oxford_longman2.js: the Glosbe Lao -> Vietnamese lookup   *)
(* script (findWord, getDefinition and the main script).                   *)
(*                                                                         *)
(* Text.  A JavaScript string is modelled as a run-length encoded          *)
(* sequence of runs [c |-> atom, n |-> count], always in canonical form    *)
(* (no two neighbouring runs carry the same atom), so that equality of     *)
(* the model values is equality of the strings.  An atom is one character  *)
(* of the input alphabet, or one whole word of a literal of the program    *)
(* (no input contains such a word).  Run lengths let the 800 character     *)
(* limit of the page text keep its real value.                             *)
(***************************************************************************)
EXTENDS Integers, Sequences, FiniteSets, TLC

\* ------------------------------------------------------------------ bounds
MaxTuc == 2
MaxEls == 1

\* ------------------------------------------------------- program constants
ApiExampleLimit == 6
MeaningLimit == 12
ScrapeExampleLimit == 8
BodyLimit == 800
NumMeaningSelectors == 6
NumExampleSelectors == 4

\* -------------------------------------------------------------------- text
\* Atoms matched by \s and stripped by String.prototype.trim.
WhiteSpace == {" ", "\n"}

\* A lone surrogate: encodeURIComponent throws URIError on it.
LoneSurrogate == "\\uD800"

Run(c, k) == [c |-> c, n |-> k]

Rep(c, k) == IF k = 0 THEN <<>> ELSE <<Run(c, k)>>

\* String concatenation (the + operator), keeping the canonical form.
Cat(s, t) ==
  IF s = <<>> THEN t
  ELSE IF t = <<>> THEN s
  ELSE IF s[Len(s)].c = t[1].c
    THEN SubSeq(s, 1, Len(s) - 1) \o <<Run(t[1].c, s[Len(s)].n + t[1].n)>> \o Tail(t)
    ELSE s \o t

RECURSIVE Lit(_)
\* A literal of the program, given as its atoms.
Lit(atoms) ==
  IF atoms = <<>> THEN <<>>
  ELSE Cat(Lit(SubSeq(atoms, 1, Len(atoms) - 1)), <<Run(atoms[Len(atoms)], 1)>>)

\* String.prototype.length, for texts over one-character atoms.
RECURSIVE TextLen(_)
TextLen(s) == IF s = <<>> THEN 0 ELSE s[1].n + TextLen(Tail(s))

RECURSIVE TrimStart(_)
TrimStart(s) ==
  IF s = <<>> THEN <<>>
  ELSE IF s[1].c \in WhiteSpace THEN TrimStart(Tail(s)) ELSE s

RECURSIVE TrimEnd(_)
TrimEnd(s) ==
  IF s = <<>> THEN <<>>
  ELSE IF s[Len(s)].c \in WhiteSpace THEN TrimEnd(SubSeq(s, 1, Len(s) - 1)) ELSE s

\* String.prototype.trim
Trim(s) == TrimEnd(TrimStart(s))

RECURSIVE CollapseWhiteSpace(_)
\* s.replace(/\s+/g, ' '): every maximal stretch of white space becomes one space.
CollapseWhiteSpace(s) ==
  IF s = <<>> THEN <<>>
  ELSE IF s[1].c \in WhiteSpace
    THEN Cat(<<Run(" ", 1)>>, CollapseWhiteSpace(TrimStart(s)))
    ELSE Cat(<<s[1]>>, CollapseWhiteSpace(Tail(s)))

RECURSIVE Substring0(_, _)
\* s.substring(0, k)
Substring0(s, k) ==
  IF s = <<>> \/ k <= 0 THEN <<>>
  ELSE IF s[1].n >= k THEN <<Run(s[1].c, k)>>
  ELSE <<s[1]>> \o Substring0(Tail(s), k - s[1].n)

\* encodeURIComponent throws URIError exactly on a lone surrogate.
EncodeThrows(s) == \E i \in 1..Len(s) : s[i].c = LoneSurrogate

EncodeAtom(c) ==
  CASE c = " " -> "%20"
    [] c = "\n" -> "%0A"
    [] OTHER -> c

\* encodeURIComponent, for a string it does not throw on.
EncodeURIComponent(s) == [i \in 1..Len(s) |-> Run(EncodeAtom(s[i].c), s[i].n)]

RECURSIVE JoinWith(_, _)
\* Array.prototype.join
JoinWith(arr, sep) ==
  IF arr = <<>> THEN <<>>
  ELSE IF Len(arr) = 1 THEN arr[1]
  ELSE Cat(Cat(JoinWith(SubSeq(arr, 1, Len(arr) - 1), sep), sep), arr[Len(arr)])

RECURSIVE Flatten(_)
\* The pushes of a forEach over a list of lists of lines, in order.
Flatten(ss) == IF ss = <<>> THEN <<>> ELSE ss[1] \o Flatten(Tail(ss))

\* Array.prototype.slice(0, k)
Slice0(arr, k) == SubSeq(arr, 1, IF Len(arr) < k THEN Len(arr) ELSE k)

\* ------------------------------------------------------------- JS values
Str(v) == [t |-> "string", v |-> v, n |-> 0]

Other(t, n) == [t |-> t, v |-> <<>>, n |-> n]

\* !x
Falsy(x) ==
  \/ x.t \in {"undefined", "null"}
  \/ x.t = "number" /\ x.n = 0
  \/ x.t = "string" /\ x.v = <<>>

\* ---------------------------------------------------------------- literals
NoWordProvided == Lit(<<"No", " ", "word", " ", "provided">>)

OfflineFallback ==
  Lit(<<"No", " ", "definition", " ", "found", " ", "(offline", " ", "fallback).", " ",
        "Try", " ", "Google", " ", "Translate", " ", "or", " ", "check", " ",
        "internet", " ", "connection.">>)

NoResultFound == Lit(<<"No", " ", "result", " ", "found">>)

ErrorText == Lit(<<"Error">>)

\* the arrow and the space of line 30 (the atom "->" stands for U+2192)
Arrow == Lit(<<"->", " ">>)

ExamplesHeader == Lit(<<"\n", "Examples:">>)

\* the dash and the space of line 45 (the atom "--" stands for U+2014)
Dash == Lit(<<"--", " ">>)

Space == Lit(<<" ">>)

LineBreaks == Rep("\n", 2)

\* --------------------------------------------------- findWord, lines 6-58
\* line 7: the guard that rejects the input before any request
InvalidWord(word) == Falsy(word) \/ word.t # "string"

\* lines 15 and 61: the request, as the endpoint and the phrase put in the URL
ApiUrl(phrase) == [endpoint |-> "gapi/translate", phrase |-> EncodeURIComponent(phrase)]

\* line 61 without the encoding
PageUrlRaw(phrase) == [endpoint |-> "lo/vi", phrase |-> phrase]

PageUrl(phrase) == [endpoint |-> "lo/vi", phrase |-> EncodeURIComponent(phrase)]

\* lines 29-31: one line per meaning that has a text
MeaningLines(meanings) ==
  LET keep(m) == m.text # <<>>
      kept == SelectSeq(meanings, keep)
  IN [i \in 1..Len(kept) |-> Cat(Arrow, kept[i].text)]

\* lines 28-34: the lines of one translation unit
ItemLines(item) ==
  IF Len(item.meanings) > 0 THEN MeaningLines(item.meanings)
  ELSE IF item.phrase # <<>> THEN <<Cat(Arrow, item.phrase)>>
  ELSE <<>>

\* lines 26-36
TucLines(json) ==
  IF ~json.null /\ json.tuc.arr /\ Len(json.tuc.items) > 0
    THEN Flatten([i \in 1..Len(json.tuc.items) |-> ItemLines(json.tuc.items[i])])
    ELSE <<>>

\* lines 43-46
ExampleLine(ex) ==
  LET s1 == IF ex.first # <<>> THEN <<ex.first>> ELSE <<>>
      s2 == IF ex.second # <<>> THEN s1 \o <<Cat(Dash, ex.second)>> ELSE s1
  IN JoinWith(s2, Space)

\* lines 39-48 without the header of line 40
ApiExampleLinesNoHeader(json) ==
  IF ~json.null /\ json.examples.arr /\ Len(json.examples.items) > 0
    THEN LET exs == Slice0(json.examples.items, ApiExampleLimit)
         IN [i \in 1..Len(exs) |-> ExampleLine(exs[i])]
    ELSE <<>>

\* lines 39-48
ApiExampleLines(json) ==
  IF ~json.null /\ json.examples.arr /\ Len(json.examples.items) > 0
    THEN LET exs == Slice0(json.examples.items, ApiExampleLimit)
         IN <<ExamplesHeader>> \o [i \in 1..Len(exs) |-> ExampleLine(exs[i])]
    ELSE <<>>

\* lines 24-48: the list out before the emptiness check
ApiExtract(json) == TucLines(json) \o ApiExampleLines(json)

\* line 51 with the test off by one
NothingUsefulOffByOne(out) == Len(out) <= 1

\* line 51
NothingUseful(out) == Len(out) = 0

RECURSIVE Unique(_)
\* Array.from(new Set(arr)): first occurrences, in insertion order
Unique(arr) ==
  IF arr = <<>> THEN <<>>
  ELSE LET init == Unique(SubSeq(arr, 1, Len(arr) - 1))
           last == arr[Len(arr)]
       IN IF \E i \in 1..Len(init) : init[i] = last THEN init ELSE init \o <<last>>

\* lines 56 and 135 without the Set
CleanUpNoSet(out) ==
  LET truthy(x) == x # <<>>
  IN SelectSeq(out, truthy)

\* lines 56 and 135: Array.from(new Set(out)).filter(Boolean)
CleanUp(out) ==
  LET truthy(x) == x # <<>>
  IN SelectSeq(Unique(out), truthy)

\* ------------------------------------------------- findWord, lines 59-141
\* lines 86-89 and 104-107, for one list of matched elements
ElementTexts(els) ==
  LET trimmed == [i \in 1..Len(els) |-> Trim(els[i])]
      nonEmpty(x) == x # <<>>
  IN SelectSeq(trimmed, nonEmpty)

\* lines 83-91 and 101-109: every selector in order, all matches appended
SelectorTexts(matches) == Flatten([k \in 1..Len(matches) |-> ElementTexts(matches[k])])

\* lines 112-117: the meanings list after the meta description
WithMetaDescription(results, meta) ==
  IF Len(results) = 0 /\ meta.present /\ meta.content # <<>>
    THEN <<Trim(meta.content)>>
    ELSE results

\* line 125
BodyText(body) ==
  IF body.present /\ body.text # <<>> THEN CollapseWhiteSpace(Trim(body.text)) ELSE <<>>

\* line 126 with the limit off by one
BodyLinesOffByOne(bodyText) ==
  IF bodyText # <<>> THEN <<Substring0(bodyText, BodyLimit + 1)>> ELSE <<>>

\* line 126
BodyLines(bodyText) == IF bodyText # <<>> THEN <<Substring0(bodyText, BodyLimit)>> ELSE <<>>

\* lines 129-132
ScrapeExampleLines(examples) ==
  IF Len(examples) > 0 THEN <<ExamplesHeader>> \o Slice0(examples, ScrapeExampleLimit) ELSE <<>>

\* lines 120-132: the list out before the final cleanup
ScrapeCompose(results, body, examples) ==
  (IF Len(results) > 0 THEN Slice0(results, MeaningLimit) ELSE BodyLines(BodyText(body)))
    \o ScrapeExampleLines(examples)

\* line 64 left out
PageStatusIgnored(resp) == FALSE

\* line 64
PageFetchFailed(resp) == ~resp.ok

\* line 20
ApiNotOk(response) == ~response.ok

\* ------------------------------------------- getDefinition, lines 146-162
\* lines 151-155 resolving with the array instead of the joined string
AssembleNoJoin(results) ==
  IF Len(results) = 0 THEN Str(NoResultFound) ELSE Other("object", 0)

\* lines 151-155
Assemble(results) ==
  IF Len(results) = 0 THEN Str(NoResultFound) ELSE Str(JoinWith(results, LineBreaks))

\* ------------------------------------------------------------------ inputs
SeqsUpTo(S, k) == UNION {[1..m -> S] : m \in 0..k}

TA == Lit(<<"a">>)

TB == Lit(<<"b">>)

\* selectedText, as the host may supply it
Words ==
  { Other("undefined", 0), Other("null", 0), Other("number", 0), Other("number", 7),
    Other("object", 0),
    Str(<<>>),
    Str(Rep(" ", 2) \o Rep("\n", 1)),
    Str(TA),
    Str(Lit(<<" ", "a", "\n">>)),
    Str(Lit(<<"a", " ", "b">>)),
    Str(Lit(<<LoneSurrogate>>)),
    Str(Lit(<<"a", LoneSurrogate>>)) }

Missing == [arr |-> FALSE, items |-> <<>>]

Arr(items) == [arr |-> TRUE, items |-> items]

\* translation units: meanings is the list of {text}, phrase the phrase.text
\* (<<>> when the unit has no phrase or an empty one)
Items ==
  { [meanings |-> <<>>, phrase |-> <<>>],
    [meanings |-> <<[text |-> TA]>>, phrase |-> <<>>],
    [meanings |-> <<[text |-> TA], [text |-> TB]>>, phrase |-> <<>>],
    [meanings |-> <<[text |-> <<>>], [text |-> TB]>>, phrase |-> TA],
    [meanings |-> <<[text |-> <<>>]>>, phrase |-> TA],
    [meanings |-> <<>>, phrase |-> TA] }

LongExamples == [k \in 1..(ApiExampleLimit + 1) |-> [first |-> Rep("a", k), second |-> <<>>]]

ExampleArrays ==
  { Missing, Arr(<<>>),
    Arr(<<[first |-> TA, second |-> TB]>>),
    Arr(<<[first |-> <<>>, second |-> <<>>]>>),
    Arr(<<[first |-> <<>>, second |-> TB], [first |-> <<>>, second |-> TB],
          [first |-> <<>>, second |-> <<>>]>>),
    Arr(LongExamples) }

JsonNull == [null |-> TRUE, tuc |-> Missing, examples |-> Missing]

\* the decoded bodies: null, or an object of the documented shape
Jsons ==
  {JsonNull} \cup
  { [null |-> FALSE, tuc |-> t, examples |-> e] :
      t \in {Missing} \cup {Arr(x) : x \in SeqsUpTo(Items, MaxTuc)}, e \in ExampleArrays }

\* what the API fetch resolves with
ApiResponses ==
  { [ok |-> FALSE, decodable |-> FALSE, json |-> JsonNull],
    [ok |-> TRUE, decodable |-> FALSE, json |-> JsonNull] } \cup
  { [ok |-> TRUE, decodable |-> TRUE, json |-> j] : j \in Jsons }

NoResponse == [ok |-> FALSE, decodable |-> FALSE, json |-> JsonNull]

\* what the page fetch resolves with
PageResponses == [ok : BOOLEAN, readable : BOOLEAN]

\* textContent of matched elements
ElTexts == {Rep(" ", 2), TA, Lit(<<" ", "b", "\n">>)}

LongEls == [k \in 1..(MeaningLimit + 1) |-> Rep("a", k)]

LongExampleEls == [k \in 1..(ScrapeExampleLimit + 1) |-> Rep("b", k)]

\* matches of the six meaning selectors, in the order of the list
\* ('.translation .text' and '.translation' are the ones that match)
MeaningMatches ==
  { [k \in 1..NumMeaningSelectors |-> IF k = 2 THEN x ELSE IF k = 3 THEN y ELSE <<>>] :
      x \in SeqsUpTo(ElTexts, MaxEls) \cup {LongEls}, y \in {<<>>, <<TA>>} }

\* matches of the four example selectors
\* ('.example .text' and '.example' are the ones that match)
ExampleMatches ==
  { [k \in 1..NumExampleSelectors |-> IF k = 1 THEN x ELSE IF k = 3 THEN y ELSE <<>>] :
      x \in {<<>>, <<TA>>}, y \in {<<>>, <<Lit(<<" ", "a", " ">>)>>, <<Rep(" ", 2)>>} }
  \cup { [k \in 1..NumExampleSelectors |-> IF k = 3 THEN LongExampleEls ELSE <<>>] }

NotQueried == [queried |-> FALSE, present |-> FALSE, content |-> <<>>]

\* doc.querySelector of the description meta tag, and its content
Metas ==
  { [queried |-> TRUE, present |-> FALSE, content |-> <<>>],
    [queried |-> TRUE, present |-> TRUE, content |-> <<>>],
    [queried |-> TRUE, present |-> TRUE, content |-> Rep(" ", 2)],
    [queried |-> TRUE, present |-> TRUE, content |-> Lit(<<" ", "a", " ">>)] }

NoBody == [present |-> FALSE, text |-> <<>>]

\* doc.body (present or null) and its textContent
Bodies ==
  { NoBody } \cup
  { [present |-> TRUE, text |-> x] :
      x \in { <<>>,
              Lit(<<" ", "\n">>),
              TA,
              Rep(" ", 2) \o TA \o Lit(<<" ", "\n", " ">>) \o TB \o Rep("\n", 1),
              Rep("a", BodyLimit),
              Rep("a", BodyLimit + 1),
              Rep("a", BodyLimit - 1) \o Rep(" ", 3) \o Rep("b", 2),
              Rep("\n", 1) \o Rep("a", 400) \o Lit(<<" ", "\n">>) \o Rep("b", 500) } }

\* the bodies of the documents whose body the handler does not read
UnreadBodies == {NoBody, [present |-> TRUE, text |-> TA]}

\* the document: the matches of the selectors, the meta tag as the handler saw
\* it, the body, and whether line 125 read the body
NoDoc ==
  [meanings |-> <<>>, examples |-> <<>>, meta |-> NotQueried, body |-> NoBody,
   bodyRead |-> FALSE]

\* ------------------------------------------------------------------- state
VARIABLES
  selectedText,  \* the host's global: the input of the main script
  pc,            \* the handler of the promise chain that runs next
  phrase,        \* findWord's const phrase
  net,           \* the fetch calls made so far, in order, each with its state
  apiResponse,   \* the Response the API fetch resolved with
  apiErr,        \* the reason the first chain is rejected with (_err), or "none"
  pageResponse,  \* the Response the page fetch resolved with
  pageErr,       \* the reason the scrape chain is rejected with (e), or "none"
  doc,           \* what the handler of lines 67-137 asked of the parsed document
  out,           \* the list out (either path) before the cleanup
  found,         \* the promise findWord returned
  definition,    \* the promise getDefinition returned
  sent           \* the arguments of the calls of sendResponse, in order

vars ==
  <<selectedText, pc, phrase, net, apiResponse, apiErr, pageResponse, pageErr, doc, out,
    found, definition, sent>>

\* findWord's promise settles with a list of lines
Pending == [state |-> "pending", value |-> <<>>]

\* getDefinition's promise settles with a value
NoDefinition == [state |-> "pending", value |-> Other("undefined", 0)]

Init ==
  /\ selectedText \in Words
  /\ pc = "main"
  /\ phrase = <<>>
  /\ net = <<>>
  /\ apiResponse = NoResponse
  /\ apiErr = "none"
  /\ pageResponse = [ok |-> FALSE, readable |-> FALSE]
  /\ pageErr = "none"
  /\ doc = NoDoc
  /\ out = <<>>
  /\ found = Pending
  /\ definition = NoDefinition
  /\ sent = <<>>

\* fetch(url): one more request, pending
Fetch(url) == Append(net, [url |-> url, state |-> "pending"])

\* the pending request settles
Settle(state) == [net EXCEPT ![Len(net)].state = state]

\* ----------------------------------------------------------------- actions
\* lines 165, 147-148 and 6-17: the script calls getDefinition, whose executor
\* calls findWord, which runs up to its return.  An exception of line 15 leaves
\* findWord and the executor, and the Promise constructor rejects with it.
Main ==
  /\ pc = "main"
  /\ IF InvalidWord(selectedText)
       THEN /\ found' = [state |-> "fulfilled", value |-> <<NoWordProvided>>]
            /\ pc' = "found"
            /\ UNCHANGED <<phrase, net, definition>>
       ELSE /\ phrase' = Trim(selectedText.v)
            /\ IF EncodeThrows(phrase')
                 THEN /\ definition' = [state |-> "rejected", value |-> Other("URIError", 0)]
                      /\ pc' = "rejected"
                      /\ UNCHANGED <<net, found>>
                 ELSE /\ net' = Fetch(ApiUrl(phrase'))
                      /\ pc' = "apiFetch"
                      /\ UNCHANGED <<found, definition>>
  /\ UNCHANGED <<selectedText, apiResponse, apiErr, pageResponse, pageErr, doc, out, sent>>

\* the API request settles: a transport error, or a Response
ApiFetchSettles ==
  /\ pc = "apiFetch"
  /\ \/ /\ net' = Settle("rejected")
        /\ apiErr' = "Failed to fetch"
        /\ pc' = "apiCatch"
        /\ UNCHANGED apiResponse
     \/ \E r \in ApiResponses :
          /\ net' = Settle("resolved")
          /\ apiResponse' = r
          /\ pc' = "apiResponse"
          /\ UNCHANGED apiErr
  /\ UNCHANGED <<selectedText, phrase, pageResponse, pageErr, doc, out, found, definition, sent>>

\* lines 18-22
ApiResponseHandler ==
  /\ pc = "apiResponse"
  /\ IF ApiNotOk(apiResponse)
       THEN apiErr' = "API not OK" /\ pc' = "apiCatch"
       ELSE IF ~apiResponse.decodable
         THEN apiErr' = "Not JSON" /\ pc' = "apiCatch"
         ELSE pc' = "apiJson" /\ UNCHANGED apiErr
  /\ UNCHANGED <<selectedText, phrase, net, apiResponse, pageResponse, pageErr, doc, out, found,
                 definition, sent>>

\* lines 23-58
ApiJsonHandler ==
  /\ pc = "apiJson"
  /\ out' = ApiExtract(apiResponse.json)
  /\ IF NothingUseful(out')
       THEN /\ apiErr' = "Empty API result, fallback to HTML"
            /\ pc' = "apiCatch"
            /\ UNCHANGED found
       ELSE /\ found' = [state |-> "fulfilled", value |-> CleanUp(out')]
            /\ pc' = "found"
            /\ UNCHANGED apiErr
  /\ UNCHANGED <<selectedText, phrase, net, apiResponse, pageResponse, pageErr, doc, definition, sent>>

\* lines 59-62 retrying the API request next to the page request
ScrapeFallbackWithRetry ==
  /\ pc = "apiCatch"
  /\ net' = Append(Fetch(ApiUrl(phrase)), [url |-> PageUrl(phrase), state |-> "pending"])
  /\ pc' = "pageFetch"
  /\ UNCHANGED <<selectedText, phrase, apiResponse, apiErr, pageResponse, pageErr, doc, out,
                 found, definition, sent>>

\* lines 59-62
ScrapeFallback ==
  /\ pc = "apiCatch"
  /\ net' = Fetch(PageUrl(phrase))
  /\ pc' = "pageFetch"
  /\ UNCHANGED <<selectedText, phrase, apiResponse, apiErr, pageResponse, pageErr, doc, out, found,
                 definition, sent>>

\* the page request settles: a transport error, or a Response
PageFetchSettles ==
  /\ pc = "pageFetch"
  /\ \/ /\ net' = Settle("rejected")
        /\ pageErr' = "Failed to fetch"
        /\ pc' = "pageCatch"
        /\ UNCHANGED pageResponse
     \/ \E resp \in PageResponses :
          /\ net' = Settle("resolved")
          /\ pageResponse' = resp
          /\ pc' = "pageResponse"
          /\ UNCHANGED pageErr
  /\ UNCHANGED <<selectedText, phrase, apiResponse, apiErr, doc, out, found, definition,
                 sent>>

\* lines 63-66: resp.text() resolves with the markup, or rejects
PageResponseHandler ==
  /\ pc = "pageResponse"
  /\ IF PageFetchFailed(pageResponse)
       THEN pageErr' = "Page fetch failed" /\ pc' = "pageCatch"
       ELSE IF ~pageResponse.readable
         THEN pageErr' = "body not readable" /\ pc' = "pageCatch"
         ELSE pc' = "pageHtml" /\ UNCHANGED pageErr
  /\ UNCHANGED <<selectedText, phrase, net, apiResponse, apiErr, pageResponse, doc, out,
                 found, definition, sent>>

\* lines 67-137.  The document is what the parser made of the markup: the
\* handler asks it for the matches of each selector, for the meta tag only when
\* no meaning was found, and for the body only when there is still none.
PageHtmlHandler ==
  /\ pc = "pageHtml"
  /\ \/ /\ pageErr' = "parser threw"
        /\ pc' = "pageCatch"
        /\ UNCHANGED <<doc, out, found>>
     \/ \E mm \in MeaningMatches, em \in ExampleMatches :
          LET selected == SelectorTexts(mm)
              examples == SelectorTexts(em)
          IN \E meta \in (IF Len(selected) = 0 THEN Metas ELSE {NotQueried}) :
               LET results == WithMetaDescription(selected, meta)
               IN \E body \in (IF Len(results) = 0 THEN Bodies ELSE UnreadBodies) :
                    /\ doc' = [meanings |-> mm, examples |-> em, meta |-> meta, body |-> body,
                               bodyRead |-> Len(results) = 0]
                    /\ out' = ScrapeCompose(results, body, examples)
                    /\ found' = [state |-> "fulfilled", value |-> CleanUp(out')]
                    /\ pc' = "found"
                    /\ UNCHANGED pageErr
  /\ UNCHANGED <<selectedText, phrase, net, apiResponse, apiErr, pageResponse, definition, sent>>

\* lines 138-141
LastResort ==
  /\ pc = "pageCatch"
  /\ found' = [state |-> "fulfilled", value |-> <<OfflineFallback>>]
  /\ pc' = "found"
  /\ UNCHANGED <<selectedText, phrase, net, apiResponse, apiErr, pageResponse, pageErr, doc, out,
                 definition, sent>>

\* lines 149-156.  The handler of lines 157-160 ("Error getting definition")
\* never runs: findWord's promise ends in the catch of lines 138-141 and is
\* never rejected, and the handler of lines 149-156 does not throw on an array.
GetDefinitionThen ==
  /\ pc = "found"
  /\ definition' = [state |-> "fulfilled", value |-> Assemble(found.value)]
  /\ pc' = "resolved"
  /\ UNCHANGED <<selectedText, phrase, net, apiResponse, apiErr, pageResponse, pageErr, doc, out, found,
                 sent>>

\* lines 166-169 (sendResponse, the host's callback, returns normally)
MainThen ==
  /\ pc = "resolved"
  /\ sent' = Append(sent, definition.value)
  /\ pc' = "done"
  /\ UNCHANGED <<selectedText, phrase, net, apiResponse, apiErr, pageResponse, pageErr, doc, out, found,
                 definition>>

\* lines 170-173
MainCatch ==
  /\ pc = "rejected"
  /\ sent' = Append(sent, Str(ErrorText))
  /\ pc' = "done"
  /\ UNCHANGED <<selectedText, phrase, net, apiResponse, apiErr, pageResponse, pageErr, doc, out, found,
                 definition>>

Next ==
  \/ Main
  \/ ApiFetchSettles
  \/ ApiResponseHandler
  \/ ApiJsonHandler
  \/ ScrapeFallback
  \/ PageFetchSettles
  \/ PageResponseHandler
  \/ PageHtmlHandler
  \/ LastResort
  \/ GetDefinitionThen
  \/ MainThen
  \/ MainCatch

Spec == Init /\ [][Next]_vars

Positions ==
  {"main", "apiFetch", "apiResponse", "apiJson", "apiCatch", "pageFetch", "pageResponse",
   "pageHtml", "pageCatch", "found", "resolved", "rejected", "done"}

\* The script moves on: a pending request settles or a queued handler runs.
\* Every step of Next changes pc, every step of Spec that changes pc is a step
\* of Next, and Next is enabled exactly when pc # "done".
MovesOn == pc # "done" /\ pc' \in Positions \ {pc}

\* Every request settles and every queued handler runs.
FairSpec == Spec /\ WF_pc(MovesOn)

\* ------------------------------------------------------------------ claims
Range(seq) == {seq[i] : i \in 1..Len(seq)}

\* a string that is empty or holds white space only
Blank(s) == \A i \in 1..Len(s) : s[i].c \in WhiteSpace

StartsWith(s, pre) == Len(s) >= Len(pre) /\ SubSeq(s, 1, Len(pre)) = pre

ApiRequests == {i \in 1..Len(net) : net[i].url.endpoint = "gapi/translate"}

PageRequests == {i \in 1..Len(net) : net[i].url.endpoint = "lo/vi"}

InFlight == {i \in 1..Len(net) : net[i].state = "pending"}

\* findWord's promise is settled
Returned == found.state # "pending"

\* the decoded body holds something that makes a line: a meaning with a text, a
\* unit without meanings but with a phrase, or an example
YieldsLine(json) ==
  /\ ~json.null
  /\ \/ /\ json.tuc.arr
        /\ \E i \in 1..Len(json.tuc.items) :
             LET unit == json.tuc.items[i]
             IN \/ \E k \in 1..Len(unit.meanings) : unit.meanings[k].text # <<>>
                \/ unit.meanings = <<>> /\ unit.phrase # <<>>
     \/ json.examples.arr /\ json.examples.items # <<>>

ApiSettled == Len(net) >= 1 /\ net[1].state # "pending"

ApiSucceeded ==
  /\ ApiSettled
  /\ net[1].state = "resolved"
  /\ apiResponse.ok
  /\ apiResponse.decodable
  /\ YieldsLine(apiResponse.json)

\* transport error, status, undecodable body, or no line
ApiFailed == ApiSettled /\ ~ApiSucceeded

PageSettled == Len(net) >= 2 /\ net[2].state # "pending"

\* the page was fetched, read and parsed, and the handler of lines 67-137 is done
ScrapeParsed ==
  /\ PageSettled
  /\ net[2].state = "resolved"
  /\ pageResponse.ok
  /\ pageResponse.readable
  /\ pageErr = "none"
  /\ Returned

\* transport error, status, unreadable body, or an exception of the parser
ScrapeFailed ==
  /\ PageSettled
  /\ \/ net[2].state = "rejected"
     \/ ~pageResponse.ok
     \/ ~pageResponse.readable
     \/ pageErr = "parser threw"

\* C1: getDefinition's promise never rejects, and resolves with a string only.
C1_NeverRejects ==
  /\ definition.state # "rejected"
  /\ definition.state = "fulfilled" => definition.value.t = "string"

\* C2: for an input that is empty, white space only or not a string, no
\* request is ever sent and findWord returns the one line "No word provided".
C2_BlankInputNoNetwork ==
  (selectedText.t # "string" \/ Blank(selectedText.v)) =>
    /\ net = <<>>
    /\ pc # "rejected"
    /\ Returned => found.value = <<NoWordProvided>>

\* C3: when the API answers with a success status and a decodable body that
\* yields a line, no page request is ever sent, and findWord returns lines, all
\* of them extracted from that body.
C3_ApiSuccessSkipsScrape ==
  ApiSucceeded =>
    /\ PageRequests = {}
    /\ pc \notin {"apiCatch", "pageFetch", "pageResponse", "pageHtml", "pageCatch"}
    /\ Returned => /\ found.value # <<>>
                   /\ Range(found.value) = Range(out) \ {<<>>}
                   /\ \A i \in 1..Len(found.value) :
                        \/ StartsWith(found.value[i], Arrow)
                        \/ found.value[i] = ExamplesHeader
                        \/ \E k \in 1..Len(apiResponse.json.examples.items) :
                             LET ex == apiResponse.json.examples.items[k]
                             IN found.value[i] \in
                                  {ex.first, Cat(Dash, ex.second),
                                   Cat(Cat(ex.first, Space), Cat(Dash, ex.second))}

C3_Witness ==
  /\ pc = "done"
  /\ ApiSucceeded
  /\ Len(found.value) >= 3
  /\ Len(net) = 1

\* C4: after any failure of the structured lookup, once the fallback has run,
\* exactly one page request has been sent, and it carries the phrase of the API
\* request: the trimmed input, percent-encoded.
C4_FailureFallsThrough ==
  (ApiFailed /\ pc \notin {"apiResponse", "apiJson", "apiCatch"}) =>
    /\ Cardinality(PageRequests) = 1
    /\ Cardinality(ApiRequests) = 1
    /\ \A i \in ApiRequests, j \in PageRequests :
         /\ i < j
         /\ net[j].url.phrase = net[i].url.phrase
         /\ net[j].url.phrase = EncodeURIComponent(Trim(selectedText.v))
         /\ \A k \in 1..Len(net[j].url.phrase) : net[j].url.phrase[k].c \notin WhiteSpace

C4_Witness ==
  /\ pc = "done"
  /\ ApiFailed
  /\ apiErr = "Empty API result, fallback to HTML"
  /\ Cardinality(PageRequests) = 1
  /\ \E k \in 1..Len(net[2].url.phrase) : net[2].url.phrase[k].c = "%20"

C6_AtMostTwoSequential ==
  /\ Len(net) <= 2
  /\ Cardinality(ApiRequests) <= 1
  /\ Cardinality(PageRequests) <= 1
  /\ Cardinality(InFlight) <= 1
  /\ \A j \in PageRequests : \E i \in ApiRequests : i < j /\ net[i].state # "pending"

C6_Witness ==
  /\ pc = "pageFetch"
  /\ Len(net) = 2
  /\ net[1].state = "rejected"
  /\ net[2].state = "pending"

FirstIndex(arr, x) == CHOOSE i \in 1..Len(arr) : arr[i] = x /\ \A j \in 1..(i - 1) : arr[j] # x

\* C7: the lines findWord returns hold no empty string and no string twice,
\* and, on the API path and on the scrape path, they are the non-empty strings
\* of the extracted list in the order of their first occurrence there.
C7_DeduplicationLaw ==
  Returned =>
    LET r == found.value
    IN /\ \A i \in 1..Len(r) : r[i] # <<>>
       /\ \A i, j \in 1..Len(r) : i < j => r[i] # r[j]
       /\ (Len(net) >= 1 /\ pageErr = "none") =>
            /\ Range(r) = Range(out) \ {<<>>}
            /\ \A i, j \in 1..Len(r) : i < j => FirstIndex(out, r[i]) < FirstIndex(out, r[j])

C7_Witness ==
  /\ pc = "done"
  /\ Len(net) = 1
  /\ \E i, j, k \in 1..Len(out) : i < j /\ out[i] = out[j] /\ out[i] # <<>> /\ out[k] = <<>>
  /\ Len(found.value) = 2

\* the document's visible text
Visible(body) == IF body.present THEN body.text ELSE <<>>

\* The runs of v that survive trimming and collapsing: every run that is not
\* white space, and the first white-space run of each stretch of white space
\* that has text on both sides.
KeptRuns(v) ==
  { i \in 1..Len(v) :
      \/ v[i].c \notin WhiteSpace
      \/ /\ i > 1
         /\ v[i - 1].c \notin WhiteSpace
         /\ \E j \in (i + 1)..Len(v) : v[j].c \notin WhiteSpace }

\* v trimmed, with every stretch of white space replaced by one space
Normalised(v) ==
  LET S == KeptRuns(v)
      nth(k) == CHOOSE i \in S : Cardinality({j \in S : j <= i}) = k
  IN [k \in 1..Cardinality(S) |->
        IF v[nth(k)].c \in WhiteSpace THEN Run(" ", 1) ELSE v[nth(k)]]

\* line is the first k characters of text (all of them when text is shorter)
IsPrefixUpTo(line, text, k) ==
  /\ TextLen(line) = (IF TextLen(text) < k THEN TextLen(text) ELSE k)
  /\ Len(line) <= Len(text)
  /\ \A i \in 1..Len(line) :
       /\ line[i].c = text[i].c
       /\ line[i].n <= text[i].n
       /\ i < Len(line) => line[i].n = text[i].n

\* the lines before the examples header
ContentLines(r) ==
  IF \E i \in 1..Len(r) : r[i] = ExamplesHeader
    THEN SubSeq(r, 1, FirstIndex(r, ExamplesHeader) - 1)
    ELSE r

NoSelectorMatched == \A k \in 1..Len(doc.meanings) : doc.meanings[k] = <<>>

\* no matched element has text, and the meta tag is absent or without content
NoMeaningFound ==
  /\ \A k \in 1..Len(doc.meanings) : \A i \in 1..Len(doc.meanings[k]) : Blank(doc.meanings[k][i])
  /\ doc.meta.queried
  /\ ~doc.meta.present \/ doc.meta.content = <<>>

\* C8: on a page that was fetched and parsed, when no meaning selector matched
\* and there is no description meta tag, the only content line is the visible
\* text, trimmed, white space collapsed to single spaces, cut to 800 characters
\* (no line when there is no visible text); and the body is read only when the
\* selectors and the meta tag gave no meaning.
C8_VisibleTextFallback ==
  ScrapeParsed =>
    /\ (NoSelectorMatched /\ ~doc.meta.present) =>
         LET text == Normalised(Visible(doc.body))
             content == ContentLines(found.value)
         IN IF text = <<>>
              THEN content = <<>>
              ELSE /\ Len(content) = 1
                   /\ IsPrefixUpTo(content[1], text, BodyLimit)
                   /\ TextLen(content[1]) <= BodyLimit
    /\ doc.bodyRead => NoMeaningFound
    /\ NoMeaningFound => doc.bodyRead

C8_Witness ==
  /\ pc = "done"
  /\ ScrapeParsed
  /\ NoSelectorMatched
  /\ ~doc.meta.present
  /\ TextLen(Normalised(Visible(doc.body))) > BodyLimit
  /\ Len(Visible(doc.body)) > Len(Normalised(Visible(doc.body)))
  /\ TextLen(found.value[1]) = BodyLimit

\* the description meta tag is there with a content of white space only
BlankMetaContent == doc.meta.present /\ doc.meta.content # <<>> /\ Blank(doc.meta.content)

NoMeaningLine ==
  /\ \A k \in 1..Len(doc.meanings) : \A i \in 1..Len(doc.meanings[k]) : Blank(doc.meanings[k][i])
  /\ doc.meta.queried
  /\ ~doc.meta.present \/ Blank(doc.meta.content)

NoExampleLine ==
  \A k \in 1..Len(doc.examples) : \A i \in 1..Len(doc.examples[k]) : Blank(doc.examples[k][i])

SaysNoResult == definition.state = "fulfilled" /\ definition.value = Str(NoResultFound)

\* C9: a structured lookup that succeeds returns at least one line, and
\* getDefinition resolves to "No result found" only when the page was fetched
\* and parsed and gave no meaning line, no example line and no visible text.
C9_NoResultOnlyOnEmptyPage ==
  /\ (ApiSucceeded /\ Returned) => found.value # <<>>
  /\ SaysNoResult =>
       /\ ScrapeParsed
       /\ NoMeaningLine
       /\ NoExampleLine
       /\ Blank(Visible(doc.body))

\* C9 as amended: ... and no visible text, or a description meta tag whose
\* content is white space only (the visible text is then not looked at).
C9_NoResultOnlyOnEmptyPageOrBlankMeta ==
  /\ (ApiSucceeded /\ Returned) => found.value # <<>>
  /\ SaysNoResult =>
       /\ ScrapeParsed
       /\ NoMeaningLine
       /\ NoExampleLine
       /\ Blank(Visible(doc.body)) \/ BlankMetaContent

C9_Witness ==
  /\ pc = "done"
  /\ SaysNoResult
  /\ BlankMetaContent
  /\ ~Blank(Visible(doc.body))

\* C10: sendResponse is called at last, once only, and with a string: from some
\* point on the calls made are one call with a string (calls are never undone).
C10_RespondsOnceWithString == <>[](Len(sent) = 1 /\ sent[1].t = "string")

C10_Witness ==
  /\ pc = "done"
  /\ definition.state = "rejected"
  /\ sent = <<Str(ErrorText)>>

====
